---- MODULE Spec2Model ----
(***************************************************************************)
(* A model of the cellular automaton of cellularGame: cells on a heap,     *)
(* CellNet / simpleCellTriangle / CellGrid, CellNet.tick and the grid      *)
(* viewer/controllers that follow a net through 'CellNet-Ticked'; and of   *)
(* the tickable objects of sandbox/ticker, pulsed by threading.Timer.      *)
(*                                                                         *)
(* A cell reference is an index into heap; None is 0.  Rows and columns    *)
(* are 0-based as in the Python code; sequences are 1-based, so the cell   *)
(* of a grid at (row, col) is cells[row + 1][col + 1].                     *)
(***************************************************************************)
EXTENDS Integers, Sequences, FiniteSets, TLC

VARIABLES
  heap,         \* every cell object ever made: Seq of cell records
  nets,         \* the CellNet objects: Seq of net records
  vcs,          \* the grid viewer/controllers: Seq of records
  subscribers,  \* listeners of 'CellNet-Ticked', in subscription order (vc ids)
  published,    \* number of 'CellNet-Ticked' messages sent so far
  pc,           \* position of the running tick(): "idle", "loop", "publish"
  ticking,      \* the net whose tick() is running (0: none yet)
  generations,  \* tick's local variable `generations`
  subIdx,       \* next listener of the message being delivered
  call,         \* the tick() call in progress or last made: arguments and entry values
  ret,          \* how the last tick() ended: "none", "ok", "raised"
  lastOp,       \* the last method called on a cell directly: name, cell, argument, result
  ops,          \* number of methods called on cells directly
  foo,          \* the tickable object a = foo(): its attributes value and t
  finished,     \* the Timer objects ever made: Seq of the flags of their `finished` events
  thread,       \* position of every thread: 0 is the caller's, i is the thread of Timer i
  loaded        \* the self.t that stopPulse has read and is about to cancel

vars == <<heap, nets, vcs, subscribers, published, pc, ticking, generations, subIdx, call, ret,
          lastOp, ops, foo, finished, thread, loaded>>

tickerVars == <<foo, finished, thread, loaded>>

netVars == <<nets, vcs, subscribers, published, pc, ticking, generations, subIdx, call, ret>>

cellVars == <<lastOp, ops>>

----------------------------------------------------------------------------
(* Bounds of the model *)

MaxDim == 3        \* grids have 1..MaxDim rows and columns
MaxState == 1      \* initial integer states are 0..MaxState, or the 1, 5, 7 of the usage example
MaxGen == 2        \* no net is ticked past this generation; tick(n) has n in -1..MaxGen
MaxVCs == 2        \* grid viewer/controllers constructed
MaxOps == 2        \* methods called directly on cells
MaxMods == 3       \* modifications made through viewer/controllers
MaxTicks == 4      \* no Timer expires once foo.value has reached this

None == 0

\* a = foo(): value is 0, self.t does not exist yet, no Timer, the caller has called nothing
NoPulse ==
  /\ foo = [ value |-> 0, t |-> None ]
  /\ finished = <<>>
  /\ thread = [ th \in {0} |-> "idle" ]
  /\ loaded = None

----------------------------------------------------------------------------
(* Cells (module cell) *)

Cell(kind, identity, state) ==
  [ kind |-> kind, identity |-> identity, state |-> state, generation |-> 0,
    neighbors |-> <<>>, ancestor |-> None, descendant |-> None ]

\* a sum that leaves out the last neighbor
RECURSIVE SumStates_NoLast(_, _, _)
SumStates_NoLast(h, ns, i) ==
  IF i >= Len(ns) THEN 0 ELSE h[ns[i]].state + SumStates_NoLast(h, ns, i + 1)

RECURSIVE SumStates(_, _, _)
SumStates(h, ns, i) ==
  IF i > Len(ns) THEN 0 ELSE h[ns[i]].state + SumStates(h, ns, i + 1)

\* a rule under which a BooleanCell keeps its state
rule_BooleanKeeps(h, c) ==
  CASE h[c].kind = "Integer" -> SumStates(h, h[c].neighbors, 1)
    [] OTHER -> h[c].state

\* the regeneration rule of each kind of cell
rule(h, c) ==
  CASE h[c].kind = "Integer" -> SumStates(h, h[c].neighbors, 1)
    [] h[c].kind = "Boolean" -> ~ h[c].state
    [] OTHER -> h[c].state

mutate(h, c) == [h EXCEPT ![c].state = rule(h, c)]

\* c.update(**kwargs): params is <<>> without state=..., else <<state>>
update(h, c, params) ==
  IF params = <<>> THEN mutate(h, c) ELSE [h EXCEPT ![c].state = params[1]]

NoIdentity == "<inherit>"

\* clone that does not record the new cell as the descendant of c
clone_NoLink(h, c, newIdentity) ==
  Append(h,
         [ kind |-> h[c].kind,
           identity |-> IF newIdentity = NoIdentity THEN h[c].identity ELSE newIdentity,
           state |-> h[c].state,
           generation |-> h[c].generation + 1,
           neighbors |-> h[c].neighbors,
           ancestor |-> c,
           descendant |-> None ])

\* clone that gives the new cell no neighbors
clone_EmptyNeighbors(h, c, newIdentity) ==
  Append([h EXCEPT ![c].descendant = Len(h) + 1],
         [ kind |-> h[c].kind,
           identity |-> IF newIdentity = NoIdentity THEN h[c].identity ELSE newIdentity,
           state |-> h[c].state,
           generation |-> h[c].generation + 1,
           neighbors |-> <<>>,
           ancestor |-> c,
           descendant |-> None ])

\* c.clone(newIdentity): the new cell is Len(h) + 1
clone(h, c, newIdentity) ==
  Append([h EXCEPT ![c].descendant = Len(h) + 1],
         [ kind |-> h[c].kind,
           identity |-> IF newIdentity = NoIdentity THEN h[c].identity ELSE newIdentity,
           state |-> h[c].state,
           generation |-> h[c].generation + 1,
           neighbors |-> h[c].neighbors,
           ancestor |-> c,
           descendant |-> None ])

\* nextGen that applies the rule to the cell itself and then clones it
nextGen_MutatesSelf(h, c, newIdentity) == clone(mutate(h, c), c, newIdentity)

nextGen(h, c, newIdentity) == mutate(clone(h, c, newIdentity), Len(h) + 1)

addNeighbor(h, c, other) == [h EXCEPT ![c].neighbors = Append(@, other)]

----------------------------------------------------------------------------
(* Nets (module cellNet) *)

IsGrid(net) == net.shape = "grid"

\* toList that walks a grid column by column
toList_ColumnMajor(net) ==
  IF IsGrid(net)
    THEN [ i \in 1..(net.rows * net.cols) |->
             net.cells[((i - 1) % net.rows) + 1][((i - 1) \div net.rows) + 1] ]
    ELSE net.cells

\* CellGrid.toList / CellNet.toList
toList(net) ==
  IF IsGrid(net)
    THEN [ i \in 1..(net.rows * net.cols) |->
             net.cells[((i - 1) \div net.cols) + 1][((i - 1) % net.cols) + 1] ]
    ELSE net.cells

Reverse(s) == [ i \in 1..Len(s) |-> s[Len(s) + 1 - i] ]

\* the k-th cells.pop() of a list that started as s: its last element, then the one before
Pop(s, k) == s[Len(s) + 1 - k]

\* CellGrid.fromList raises IndexError when the list runs out
fromListRaises(net, cells) == IsGrid(net) /\ Len(cells) < net.rows * net.cols

\* fromList without cells.reverse(): it pops the list from its end
fromList_NoReverse(net, cells) ==
  IF IsGrid(net)
    THEN [ row \in 1..net.rows |->
           [ col \in 1..net.cols |-> Pop(cells, (row - 1) * net.cols + col) ] ]
    ELSE cells

\* CellGrid.fromList / CellNet.fromList
fromList(net, cells) ==
  IF IsGrid(net)
    THEN LET reversed == Reverse(cells)
         IN  [ row \in 1..net.rows |->
               [ col \in 1..net.cols |-> Pop(reversed, (row - 1) * net.cols + col) ] ]
    ELSE cells

\* setupNeighbors that leaves nw out of the tuple of compass points
GridNeighborPositions_NoNW(rows, cols, row, col) ==
  LET n  == IF row > 0 THEN <<row - 1, col>> ELSE <<>>
      ne == IF row > 0 /\ col < cols - 1 THEN <<row - 1, col + 1>> ELSE <<>>
      e  == IF col < cols - 1 THEN <<row, col + 1>> ELSE <<>>
      se == IF row < rows - 1 /\ col < cols - 1 THEN <<row + 1, col + 1>> ELSE <<>>
      s  == IF row < rows - 1 THEN <<row + 1, col>> ELSE <<>>
      sw == IF row < rows - 1 /\ col > 0 THEN <<row + 1, col - 1>> ELSE <<>>
      w  == IF col > 0 THEN <<row, col - 1>> ELSE <<>>
  IN  SelectSeq(<<n, ne, e, se, s, sw, w>>, LAMBDA ncell : ncell # <<>>)

\* setupNeighbors that wires only the cells to the north, east, south and west
GridNeighborPositions_Orthogonal(rows, cols, row, col) ==
  LET n  == IF row > 0 THEN <<row - 1, col>> ELSE <<>>
      e  == IF col < cols - 1 THEN <<row, col + 1>> ELSE <<>>
      s  == IF row < rows - 1 THEN <<row + 1, col>> ELSE <<>>
      w  == IF col > 0 THEN <<row, col - 1>> ELSE <<>>
  IN  SelectSeq(<<n, e, s, w>>, LAMBDA ncell : ncell # <<>>)

\* the positions CellGrid.setupNeighbors wires to (row, col), in its order
GridNeighborPositions(rows, cols, row, col) ==
  LET nw == IF row > 0 /\ col > 0 THEN <<row - 1, col - 1>> ELSE <<>>
      n  == IF row > 0 THEN <<row - 1, col>> ELSE <<>>
      ne == IF row > 0 /\ col < cols - 1 THEN <<row - 1, col + 1>> ELSE <<>>
      e  == IF col < cols - 1 THEN <<row, col + 1>> ELSE <<>>
      se == IF row < rows - 1 /\ col < cols - 1 THEN <<row + 1, col + 1>> ELSE <<>>
      s  == IF row < rows - 1 THEN <<row + 1, col>> ELSE <<>>
      sw == IF row < rows - 1 /\ col > 0 THEN <<row + 1, col - 1>> ELSE <<>>
      w  == IF col > 0 THEN <<row, col - 1>> ELSE <<>>
  IN  SelectSeq(<<n, ne, e, se, s, sw, w, nw>>, LAMBDA ncell : ncell # <<>>)

\* the positions simpleCellTriangle.setupNeighbors wires to each index
TriangleNeighborIndexes(i) ==
  CASE i = 0 -> <<1, 2>>
    [] i = 1 -> <<0, 2>>
    [] OTHER -> <<0, 1>>

\* setupNeighbors of the net whose cells are already on the heap
setupNeighbors(h, net) ==
  IF IsGrid(net)
    THEN [ c \in 1..Len(h) |->
           IF \E row \in 1..net.rows, col \in 1..net.cols : net.cells[row][col] = c
             THEN LET row == CHOOSE r \in 1..net.rows : \E k \in 1..net.cols : net.cells[r][k] = c
                      col == CHOOSE k \in 1..net.cols : net.cells[row][k] = c
                      ps  == GridNeighborPositions(net.rows, net.cols, row - 1, col - 1)
                  IN  [h[c] EXCEPT !.neighbors =
                         [ j \in 1..Len(ps) |-> net.cells[ps[j][1] + 1][ps[j][2] + 1] ]]
             ELSE h[c] ]
    ELSE [ c \in 1..Len(h) |->
           IF \E i \in 1..Len(net.cells) : net.cells[i] = c
             THEN LET i  == CHOOSE k \in 1..Len(net.cells) : net.cells[k] = c
                      ps == TriangleNeighborIndexes(i - 1)
                  IN  [h[c] EXCEPT !.neighbors = [ j \in 1..Len(ps) |-> net.cells[ps[j] + 1] ]]
             ELSE h[c] ]

\* CellNet.makeCell / BooleanCellGrid.makeCell
makeCell(kind, identity) ==
  IF kind = "Boolean" THEN Cell("Boolean", identity, FALSE) ELSE Cell("Base", identity, 0)

\* CellNet.__init__, run by the subclass constructor once self.cells is set
CellNetInit(h, net) ==
  LET n == [net EXCEPT !.generation = 0]
  IN  [ heap |-> setupNeighbors(h, n), net |-> n ]

\* simpleCellTriangle(listOfCells), the three IntegerCells made by the caller with `states`
simpleCellTriangle(h, states) ==
  LET ids == <<"Cell A", "Cell B", "Cell C">>
      h1  == h \o [ i \in 1..3 |-> Cell("Integer", ids[i], states[i]) ]
  IN  CellNetInit(h1, [ shape |-> "triangle", kind |-> "Integer", rows |-> 0, cols |-> 0,
                        cells |-> [ i \in 1..3 |-> Len(h) + i ], generation |-> 0 ])

\* CellGrid(rows, cols) / BooleanCellGrid(rows, cols)
CellGrid(h, kind, rows, cols) ==
  LET h1 == h \o [ i \in 1..(rows * cols) |->
                     makeCell(kind, <<(i - 1) \div cols, (i - 1) % cols>>) ]
  IN  CellNetInit(h1, [ shape |-> "grid", kind |-> kind, rows |-> rows, cols |-> cols,
                        cells |-> [ row \in 1..rows |->
                                    [ col \in 1..cols |-> Len(h) + (row - 1) * cols + col ] ],
                        generation |-> 0 ])

----------------------------------------------------------------------------
(* The programs modelled: one net of any shape, or two small nets *)

InitialStates ==
  { <<a, b, c>> : a \in 0..MaxState, b \in 0..MaxState, c \in 0..MaxState } \cup { <<1, 5, 7>> }

TriangleDescs ==
  { [ shape |-> "triangle", kind |-> "Integer", rows |-> 0, cols |-> 0, states |-> abc ] :
      abc \in InitialStates }

GridDescs ==
  { [ shape |-> "grid", kind |-> k, rows |-> r, cols |-> c, states |-> <<>> ] :
      k \in {"Base", "Boolean"}, r \in 1..MaxDim, c \in 1..MaxDim }

\* the programs with two nets: a small grid, then a grid like it or the triangle of
\* the usage example
SmallGrids ==
  { d \in GridDescs : (d.kind = "Base" /\ d.rows = 1 /\ d.cols = 2)
                        \/ (d.kind = "Boolean" /\ d.rows = 2 /\ d.cols = 1) }

Programs ==
  { <<d>> : d \in TriangleDescs \cup GridDescs }
    \cup { <<d, d>> : d \in SmallGrids }
    \cup { <<d, e>> : d \in { x \in SmallGrids : x.kind = "Base" },
                      e \in { x \in TriangleDescs : x.states = <<1, 5, 7>> } }

Construct(h, d) ==
  IF d.shape = "grid" THEN CellGrid(h, d.kind, d.rows, d.cols)
                      ELSE simpleCellTriangle(h, d.states)

RECURSIVE ConstructAll(_, _, _, _)
ConstructAll(h, ns, prog, i) ==
  IF i > Len(prog) THEN [ heap |-> h, nets |-> ns ]
  ELSE LET made == Construct(h, prog[i])
       IN  ConstructAll(made.heap, Append(ns, made.net), prog, i + 1)

NoCall == [ net |-> 0, n |-> 0, generation |-> 0, published |-> 0, cells |-> <<>> ]

NoOp == [ op |-> "none", cell |-> None, arg |-> NoIdentity, result |-> None ]

Init ==
  \E prog \in Programs :
    /\ heap = ConstructAll(<<>>, <<>>, prog, 1).heap
    /\ nets = ConstructAll(<<>>, <<>>, prog, 1).nets
    /\ vcs = <<>>
    /\ subscribers = <<>>
    /\ published = 0
    /\ pc = "idle"
    /\ ticking = 0
    /\ generations = 0
    /\ subIdx = 0
    /\ call = NoCall
    /\ ret = "none"
    /\ lastOp = NoOp
    /\ ops = 0
    /\ NoPulse

----------------------------------------------------------------------------
(* CellNet.tick *)

\* tick that builds newList with cell.clone() instead of cell.nextGen()
RECURSIVE NextGenList_CloneOnly(_, _, _, _)
NextGenList_CloneOnly(h, cellList, i, newList) ==
  IF i > Len(cellList) THEN [ heap |-> h, newList |-> newList ]
  ELSE NextGenList_CloneOnly(clone(h, cellList[i], NoIdentity), cellList, i + 1,
                             Append(newList, Len(h) + 1))

\* newList = [ cell.nextGen() for cell in cellList ]: the heap after it and the list
RECURSIVE NextGenList(_, _, _, _)
NextGenList(h, cellList, i, newList) ==
  IF i > Len(cellList) THEN [ heap |-> h, newList |-> newList ]
  ELSE NextGenList(nextGen(h, cellList[i], NoIdentity), cellList, i + 1,
                   Append(newList, Len(h) + 1))

\* tick without the rewiring of the new cell
RewireCell_Keep(h, c) == h

\* a rewiring that lists the descendants of the neighbors from the last to the first
RewireCell_Reversed(h, c) ==
  [h EXCEPT ![c].neighbors =
     [ j \in 1..Len(h[c].neighbors) |->
         h[h[c].neighbors[Len(h[c].neighbors) + 1 - j]].descendant ]]

\* cell.neighbors = [ n.descendant for n in cell.neighbors ]
RewireCell(h, c) ==
  [h EXCEPT ![c].neighbors = [ j \in 1..Len(h[c].neighbors) |-> h[h[c].neighbors[j]].descendant ]]

\* for cell in newList: rewire
RECURSIVE Rewire(_, _, _)
Rewire(h, newList, i) ==
  IF i > Len(newList) THEN h ELSE Rewire(RewireCell(h, newList[i]), newList, i + 1)

\* a pass of the loop without self.generation += 1
Advanced_NoIncrement(h, net) ==
  LET made == NextGenList(h, toList(net), 1, <<>>)
  IN  [ heap |-> Rewire(made.heap, made.newList, 1),
        net  |-> [net EXCEPT !.cells = fromList(net, made.newList)] ]

\* one pass of the loop of tick up to the increment of self.generation
Advanced(h, net) ==
  LET made == NextGenList(h, toList(net), 1, <<>>)
  IN  [ heap |-> Rewire(made.heap, made.newList, 1),
        net  |-> [net EXCEPT !.cells = fromList(net, made.newList),
                             !.generation = @ + 1] ]

TickArgs == (0 - 1)..MaxGen

\* net.tick(n) is called: n = 1 is tick()
CallTick(t, n) ==
  /\ pc = "idle"
  /\ nets[t].generation + n <= MaxGen
  /\ pc' = "loop"
  /\ ticking' = t
  /\ generations' = n
  /\ call' = [ net |-> t, n |-> n, generation |-> nets[t].generation, published |-> published,
               cells |-> nets[t].cells ]
  /\ ret' = "none"
  /\ UNCHANGED <<heap, nets, vcs, subscribers, published, subIdx, lastOp, ops>>
  /\ UNCHANGED tickerVars

\* the loop written `while generations >= 0`
Advance_LoopOffByOne ==
  /\ pc = "loop"
  /\ generations >= 0
  /\ heap' = Advanced(heap, nets[ticking]).heap
  /\ nets' = [nets EXCEPT ![ticking] = Advanced(heap, nets[ticking]).net]
  /\ generations' = generations - 1
  /\ published' = published + 1
  /\ pc' = "publish"
  /\ subIdx' = 1
  /\ UNCHANGED <<vcs, subscribers, ticking, call, ret, lastOp, ops>>
  /\ UNCHANGED tickerVars

\* while generations > 0: one generation, then pub.sendMessage('CellNet-Ticked')
Advance ==
  /\ pc = "loop"
  /\ generations > 0
  /\ heap' = Advanced(heap, nets[ticking]).heap
  /\ nets' = [nets EXCEPT ![ticking] = Advanced(heap, nets[ticking]).net]
  /\ generations' = generations - 1
  /\ published' = published + 1
  /\ pc' = "publish"
  /\ subIdx' = 1
  /\ UNCHANGED <<vcs, subscribers, ticking, call, ret, lastOp, ops>>
  /\ UNCHANGED tickerVars

\* the loop ends and tick returns
Return ==
  /\ pc = "loop"
  /\ generations <= 0
  /\ pc' = "idle"
  /\ ret' = "ok"
  /\ UNCHANGED <<heap, nets, vcs, subscribers, published, ticking, generations, subIdx, call, lastOp, ops>>
  /\ UNCHANGED tickerVars

----------------------------------------------------------------------------
(* Grid viewer/controllers (module CellViewerController, CellGrid_VC of cellNet) *)

\* CellViewerController.refresh and its overrides; "raise" when self.cell is None
\* and the override reads self.cell.state
refresh(h, kind, c) ==
  CASE kind = "Boolean" -> IF c = None THEN "raise" ELSE IF h[c].state = TRUE THEN "*" ELSE "-"
    [] kind = "Integer" -> IF c = None THEN "raise" ELSE ToString(h[c].state)
    [] OTHER -> "X"

\* setCell that refreshes the viewer without pointing it to the new cell
setCell_NoRebind(h, kind, v, c) ==
  LET s == refresh(h, kind, v.cell)
  IN  [ viewer |-> [ cell |-> v.cell, strValue |-> IF s = "raise" THEN v.strValue ELSE s ],
        raised |-> s = "raise" ]

\* CellViewerController.setCell: the viewer afterwards and whether refresh raised
setCell(h, kind, v, c) ==
  LET s == refresh(h, kind, c)
  IN  [ viewer |-> [ cell |-> c, strValue |-> IF s = "raise" THEN v.strValue ELSE s ],
        raised |-> s = "raise" ]

\* CellGridViewerController(cellGrid): one viewer per cell of cellGrid.cells
NewGridVC(h, t, kind) ==
  [ net |-> t, kind |-> kind,
    viewers |-> [ row \in 1..nets[t].rows |->
                  [ col \in 1..nets[t].cols |->
                      [ cell |-> nets[t].cells[row][col],
                        strValue |-> refresh(h, kind, nets[t].cells[row][col]) ] ] ] ]

\* refreshOnTick: v.setCell(v.cell.descendant) for every viewer, row by row; it stops
\* at the first viewer whose cell is None (AttributeError) or whose refresh raises
RECURSIVE RefreshFrom(_, _, _, _)
RefreshFrom(h, vc, viewers, i) ==
  LET cols == nets[vc.net].cols
      row  == ((i - 1) \div cols) + 1
      col  == ((i - 1) % cols) + 1
  IN  IF i > nets[vc.net].rows * cols THEN [ viewers |-> viewers, raised |-> FALSE ]
      ELSE IF viewers[row][col].cell = None THEN [ viewers |-> viewers, raised |-> TRUE ]
      ELSE LET set == setCell(h, vc.kind, viewers[row][col], h[viewers[row][col].cell].descendant)
               vs  == [viewers EXCEPT ![row][col] = set.viewer]
           IN  IF set.raised THEN [ viewers |-> vs, raised |-> TRUE ]
               ELSE RefreshFrom(h, vc, vs, i + 1)

refreshOnTick(h, vc) == RefreshFrom(h, vc, vc.viewers, 1)

\* a grid viewer/controller is constructed on grid t and subscribes to 'CellNet-Ticked'
AttachVC(t, kind) ==
  /\ pc = "idle"
  /\ Len(vcs) < MaxVCs
  /\ IsGrid(nets[t])
  /\ kind = nets[t].kind
  /\ vcs' = Append(vcs, NewGridVC(heap, t, kind))
  /\ subscribers' = Append(subscribers, Len(vcs) + 1)
  /\ UNCHANGED <<heap, nets, published, pc, ticking, generations, subIdx, call, ret, lastOp, ops>>
  /\ UNCHANGED tickerVars

\* sendMessage calls the next listener; an exception of the listener leaves tick
Deliver ==
  /\ pc = "publish"
  /\ subIdx <= Len(subscribers)
  /\ LET done == refreshOnTick(heap, vcs[subscribers[subIdx]])
     IN  /\ vcs' = [vcs EXCEPT ![subscribers[subIdx]].viewers = done.viewers]
         /\ IF done.raised
              THEN pc' = "idle" /\ ret' = "raised" /\ subIdx' = subIdx
              ELSE pc' = "publish" /\ ret' = ret /\ subIdx' = subIdx + 1
  /\ UNCHANGED <<heap, nets, subscribers, published, ticking, generations, call, lastOp, ops>>
  /\ UNCHANGED tickerVars

\* a sendMessage that returns into the loop without waiting for its listeners
Delivered_Early ==
  /\ pc = "publish"
  /\ pc' = "loop"
  /\ UNCHANGED <<heap, nets, vcs, subscribers, published, ticking, generations, subIdx, call, ret, lastOp, ops>>
  /\ UNCHANGED tickerVars

\* every listener has run: sendMessage returns into the loop
Delivered ==
  /\ pc = "publish"
  /\ subIdx > Len(subscribers)
  /\ pc' = "loop"
  /\ UNCHANGED <<heap, nets, vcs, subscribers, published, ticking, generations, subIdx, call, ret, lastOp, ops>>
  /\ UNCHANGED tickerVars

Next ==
  \/ \E t \in 1..Len(nets), n \in TickArgs : CallTick(t, n)
  \/ Advance
  \/ Return
  \/ \E t \in 1..Len(nets), kind \in {"Base", "Boolean"} : AttachVC(t, kind)
  \/ Deliver
  \/ Delivered

Spec == Init /\ [][Next]_vars

----------------------------------------------------------------------------
(* Cells used directly, as the tests of module cell do *)

\* the cells of the test fixtures: two BaseCells, four IntegerCells of which the last
\* may have the others as neighbors, two BooleanCells
BaseFixture == << Cell("Base", "Cell 1", 0), Cell("Base", "Cell 2", 0) >>

IntegerFixtures ==
  { << Cell("Integer", "Cell 1", s), Cell("Integer", "Cell 2", 1), Cell("Integer", "Cell 3", 5),
       [ Cell("Integer", "Cell 4", 10) EXCEPT !.neighbors = ns ] >> :
      s \in {0, 10}, ns \in { <<>>, <<1, 2, 3>> } }

BooleanFixture == << Cell("Boolean", "Cell 1", FALSE), Cell("Boolean", "Cell 2", TRUE) >>

Fixtures == { BaseFixture, BooleanFixture } \cup IntegerFixtures

NewIdentities == { NoIdentity, "Cell 5" }

UpdateArgs(kind) ==
  CASE kind = "Integer" -> { <<>>, <<100>> }
    [] kind = "Boolean" -> { <<>>, <<TRUE>>, <<FALSE>> }
    [] OTHER -> { <<>> }

InitCell ==
  /\ heap \in Fixtures
  /\ nets = <<>>
  /\ vcs = <<>>
  /\ subscribers = <<>>
  /\ published = 0
  /\ pc = "idle"
  /\ ticking = 0
  /\ generations = 0
  /\ subIdx = 0
  /\ call = NoCall
  /\ ret = "none"
  /\ lastOp = NoOp
  /\ ops = 0
  /\ NoPulse

CloneCell(c, newIdentity) ==
  /\ ops < MaxOps
  /\ heap' = clone(heap, c, newIdentity)
  /\ lastOp' = [ op |-> "clone", cell |-> c, arg |-> newIdentity, result |-> Len(heap) + 1 ]
  /\ ops' = ops + 1
  /\ UNCHANGED netVars
  /\ UNCHANGED tickerVars

NextGenCell(c, newIdentity) ==
  /\ ops < MaxOps
  /\ heap' = nextGen(heap, c, newIdentity)
  /\ lastOp' = [ op |-> "nextGen", cell |-> c, arg |-> newIdentity, result |-> Len(heap) + 1 ]
  /\ ops' = ops + 1
  /\ UNCHANGED netVars
  /\ UNCHANGED tickerVars

MutateCell(c) ==
  /\ ops < MaxOps
  /\ heap' = mutate(heap, c)
  /\ lastOp' = [ op |-> "mutate", cell |-> c, arg |-> <<>>, result |-> None ]
  /\ ops' = ops + 1
  /\ UNCHANGED netVars
  /\ UNCHANGED tickerVars

UpdateCell(c, params) ==
  /\ ops < MaxOps
  /\ heap' = update(heap, c, params)
  /\ lastOp' = [ op |-> "update", cell |-> c, arg |-> params, result |-> None ]
  /\ ops' = ops + 1
  /\ UNCHANGED netVars
  /\ UNCHANGED tickerVars

AddNeighborCell(c, other) ==
  /\ ops < MaxOps
  /\ heap' = addNeighbor(heap, c, other)
  /\ lastOp' = [ op |-> "addNeighbor", cell |-> c, arg |-> other, result |-> None ]
  /\ ops' = ops + 1
  /\ UNCHANGED netVars
  /\ UNCHANGED tickerVars

NextCell ==
  \/ \E c \in 1..Len(heap), newIdentity \in NewIdentities : CloneCell(c, newIdentity)
  \/ \E c \in 1..Len(heap), newIdentity \in NewIdentities : NextGenCell(c, newIdentity)
  \/ \E c \in 1..Len(heap) : MutateCell(c)
  \/ \E c \in 1..Len(heap) : \E params \in UpdateArgs(heap[c].kind) : UpdateCell(c, params)
  \/ \E c \in 1..Len(heap), other \in 1..Len(heap) : AddNeighborCell(c, other)

SpecCell == InitCell /\ [][NextCell]_vars

----------------------------------------------------------------------------
(* Modifications made through viewer/controllers *)

\* A viewer that is not part of a grid viewer/controller is a vc record without a
\* net, whose viewers are the single viewer at (0, 0).

\* CellViewerController(cell): the viewer after its constructor
NewViewer(h, kind, c) == [ cell |-> c, strValue |-> refresh(h, kind, c) ]

\* the fixtures of the viewer tests: an IntegerCell with two neighbors, a BooleanCell
IntegerViewFixture ==
  << [ Cell("Integer", "Cell1", 0) EXCEPT !.neighbors = <<2, 3>> ],
     Cell("Integer", "Cell2", 5), Cell("Integer", "Cell3", 10) >>

BooleanViewFixture == << Cell("Boolean", "Cell1", FALSE) >>

ViewFixtures == { IntegerViewFixture, BooleanViewFixture }

\* the grid of the usage example of the grid viewer/controllers, and smaller ones
ViewGrids ==
  { d \in GridDescs : d.kind = "Boolean" /\ <<d.rows, d.cols>> \in { <<3, 3>>, <<2, 2>>, <<1, 2>>, <<1, 1>> } }

\* the state given by the keyword arguments of a modification
ViewArgs(kind) ==
  CASE kind = "Integer" -> { <<>>, <<50>> }
    [] kind = "Boolean" -> { <<>>, <<TRUE>>, <<FALSE>> }
    [] OTHER -> { <<>> }

\* the cell at (0, 0) and the cells that the usage example modifies, as far as the
\* grid has them; the viewer that is not part of a grid is at (0, 0)
ModifiedPositions(vc) ==
  IF vc.net = None THEN { <<0, 0>> }
  ELSE { rc \in { <<0, 0>>, <<0, 1>>, <<1, 1>>, <<2, 1>> } :
           rc[1] < nets[vc.net].rows /\ rc[2] < nets[vc.net].cols }

\* the programs: a grid and its viewer/controller, or two grids of one cell with a
\* viewer/controller each, constructed in this order
ViewPrograms ==
  { <<d>> : d \in ViewGrids } \cup { <<d, d>> : d \in { x \in ViewGrids : x.rows = 1 /\ x.cols = 1 } }

InitView ==
  /\ \/ \E prog \in ViewPrograms :
          /\ heap = ConstructAll(<<>>, <<>>, prog, 1).heap
          /\ nets = ConstructAll(<<>>, <<>>, prog, 1).nets
          /\ vcs = [ t \in 1..Len(prog) |-> NewGridVC(heap, t, prog[t].kind) ]
          /\ subscribers = [ t \in 1..Len(prog) |-> t ]
     \/ \E f \in ViewFixtures :
          /\ heap = f
          /\ nets = <<>>
          /\ vcs = << [ net |-> None, kind |-> f[1].kind,
                        viewers |-> << << NewViewer(f, f[1].kind, 1) >> >> ] >>
          /\ subscribers = <<>>
  /\ published = 0
  /\ pc = "idle"
  /\ ticking = 0
  /\ generations = 0
  /\ subIdx = 0
  /\ call = NoCall
  /\ ret = "none"
  /\ lastOp = NoOp
  /\ ops = 0
  /\ NoPulse

\* the cell of the grid of vc at (row, col): self.cellGrid.cells[row][col]
GridCell(vc, row, col) == nets[vc.net].cells[row + 1][col + 1]

\* the viewer of vc at (row, col): self.viewers[row][col]
ViewerAt(vc, row, col) == vc.viewers[row + 1][col + 1]

\* self.viewers[row][col].refresh(); a refresh that raises leaves the string as it was
Refreshed(h, vc, row, col) ==
  LET s == refresh(h, vc.kind, ViewerAt(vc, row, col).cell)
  IN  [vc EXCEPT !.viewers[row + 1][col + 1].strValue = IF s = "raise" THEN @ ELSE s]

\* 'Cell-Mutation' is published: the refresh of every viewer runs, in the order the
\* viewers were constructed (vc by vc, row by row), up to the first one that raises
RECURSIVE CellMutationFrom(_, _, _, _)
CellMutationFrom(h, vs, v, i) ==
  IF v > Len(vs) THEN vs
  ELSE LET rows == Len(vs[v].viewers)
           cols == Len(vs[v].viewers[1])
           row  == (i - 1) \div cols
           col  == (i - 1) % cols
       IN  IF i > rows * cols THEN CellMutationFrom(h, vs, v + 1, 1)
           ELSE IF refresh(h, vs[v].kind, ViewerAt(vs[v], row, col).cell) = "raise" THEN vs
           ELSE CellMutationFrom(h, [vs EXCEPT ![v] = Refreshed(h, vs[v], row, col)], v, i + 1)

CellMutation(h, vs) == CellMutationFrom(h, vs, 1, 1)

\* CellGrid_VC.mutateCell(row, col)
mutateCell(v, row, col) ==
  /\ pc = "idle"
  /\ ops < MaxMods
  /\ vcs[v].net # None
  /\ LET c == GridCell(vcs[v], row, col)
     IN  /\ heap' = mutate(heap, c)
         /\ vcs' = [vcs EXCEPT ![v] = Refreshed(mutate(heap, c), vcs[v], row, col)]
  /\ ops' = ops + 1
  /\ UNCHANGED <<nets, subscribers, published, pc, ticking, generations, subIdx, call, ret, lastOp>>
  /\ UNCHANGED tickerVars

\* CellGrid_VC.updateCell(row, col, **kwargs)
updateCell(v, row, col, params) ==
  /\ pc = "idle"
  /\ ops < MaxMods
  /\ vcs[v].net # None
  /\ LET c == GridCell(vcs[v], row, col)
     IN  /\ heap' = update(heap, c, params)
         /\ vcs' = [vcs EXCEPT ![v] = Refreshed(update(heap, c, params), vcs[v], row, col)]
  /\ ops' = ops + 1
  /\ UNCHANGED <<nets, subscribers, published, pc, ticking, generations, subIdx, call, ret, lastOp>>
  /\ UNCHANGED tickerVars

\* CellGridViewerController.modifyCell(row, col, **kwargs), and viewer.modify(**kwargs)
\* of a viewer by itself: self.cell.mutate(**kwargs), which with state=... assigns it;
\* the viewers are refreshed by the 'Cell-Mutation' message
modifyCell(v, row, col, params) ==
  /\ pc = "idle"
  /\ ops < MaxMods
  /\ ViewerAt(vcs[v], row, col).cell # None
  /\ LET c == ViewerAt(vcs[v], row, col).cell
     IN  /\ heap' = update(heap, c, params)
         /\ vcs' = CellMutation(update(heap, c, params), vcs)
  /\ ops' = ops + 1
  /\ UNCHANGED <<nets, subscribers, published, pc, ticking, generations, subIdx, call, ret, lastOp>>
  /\ UNCHANGED tickerVars

\* viewer.setCell(c) of a viewer by itself
ViewerSetCell(v, c) ==
  /\ pc = "idle"
  /\ ops < MaxMods
  /\ vcs[v].net = None
  /\ vcs' = [vcs EXCEPT ![v].viewers[1][1] = setCell(heap, vcs[v].kind, @, c).viewer]
  /\ ops' = ops + 1
  /\ UNCHANGED <<heap, nets, subscribers, published, pc, ticking, generations, subIdx, call, ret, lastOp>>
  /\ UNCHANGED tickerVars

\* vc.mutate() of a Cell_VC of module cell
ViewerMutate(v) ==
  /\ pc = "idle"
  /\ ops < MaxMods
  /\ vcs[v].net = None
  /\ LET c == ViewerAt(vcs[v], 0, 0).cell
     IN  /\ heap' = mutate(heap, c)
         /\ vcs' = [vcs EXCEPT ![v] = Refreshed(mutate(heap, c), vcs[v], 0, 0)]
  /\ ops' = ops + 1
  /\ UNCHANGED <<nets, subscribers, published, pc, ticking, generations, subIdx, call, ret, lastOp>>
  /\ UNCHANGED tickerVars

\* vc.update(**kwargs) of a Cell_VC of module cell
ViewerUpdate(v, params) ==
  /\ pc = "idle"
  /\ ops < MaxMods
  /\ vcs[v].net = None
  /\ LET c == ViewerAt(vcs[v], 0, 0).cell
     IN  /\ heap' = update(heap, c, params)
         /\ vcs' = [vcs EXCEPT ![v] = Refreshed(update(heap, c, params), vcs[v], 0, 0)]
  /\ ops' = ops + 1
  /\ UNCHANGED <<nets, subscribers, published, pc, ticking, generations, subIdx, call, ret, lastOp>>
  /\ UNCHANGED tickerVars

\* vc.tick() ticks the grid once, vc.play(generations) as often as asked
PlayArgs == {1, 2}

NextView ==
  \/ \E t \in 1..Len(nets), n \in PlayArgs : CallTick(t, n)
  \/ Advance
  \/ Return
  \/ Deliver
  \/ Delivered
  \/ \E v \in 1..Len(vcs) : \E rc \in ModifiedPositions(vcs[v]) : mutateCell(v, rc[1], rc[2])
  \/ \E v \in 1..Len(vcs) : \E rc \in ModifiedPositions(vcs[v]), params \in ViewArgs(vcs[v].kind) :
       updateCell(v, rc[1], rc[2], params)
  \/ \E v \in 1..Len(vcs) : \E rc \in ModifiedPositions(vcs[v]), params \in ViewArgs(vcs[v].kind) :
       modifyCell(v, rc[1], rc[2], params)
  \/ \E v \in 1..Len(vcs), c \in 1..Len(heap) : ViewerSetCell(v, c)
  \/ \E v \in 1..Len(vcs) : ViewerMutate(v)
  \/ \E v \in 1..Len(vcs) : \E params \in ViewArgs(vcs[v].kind) : ViewerUpdate(v, params)

SpecView == InitView /\ [][NextView]_vars

----------------------------------------------------------------------------
(* fromList called with a list by a user of the grid *)

\* the lists given to fromList: the cells of the grid as toList gives them, the same
\* without the last cell, and the same with the first cell once more at the end
ListsOf(net) ==
  LET cellList == toList(net)
  IN  { cellList, SubSeq(cellList, 1, Len(cellList) - 1), Append(cellList, cellList[1]) }

InitList ==
  /\ \E d \in GridDescs :
       /\ heap = Construct(<<>>, d).heap
       /\ nets = << Construct(<<>>, d).net >>
  /\ vcs = <<>>
  /\ subscribers = <<>>
  /\ published = 0
  /\ pc = "idle"
  /\ ticking = 0
  /\ generations = 0
  /\ subIdx = 0
  /\ call = NoCall
  /\ ret = "none"
  /\ lastOp = NoOp
  /\ ops = 0
  /\ NoPulse

\* grid.fromList(cells): what it returns, or that cells.pop() raised IndexError
FromListCall(t, cells) ==
  /\ pc = "idle"
  /\ lastOp' = [ op |-> "fromList", cell |-> None, arg |-> cells,
                 result |-> IF fromListRaises(nets[t], cells)
                              THEN [ raised |-> TRUE, cells |-> <<>> ]
                              ELSE [ raised |-> FALSE, cells |-> fromList(nets[t], cells) ] ]
  /\ UNCHANGED <<heap, nets, vcs, subscribers, published, pc, ticking, generations, subIdx,
                 call, ret, ops>>
  /\ UNCHANGED tickerVars

NextList ==
  \/ \E t \in 1..Len(nets), n \in TickArgs : CallTick(t, n)
  \/ Advance
  \/ Delivered
  \/ Return
  \/ \E t \in 1..Len(nets) : \E cells \in ListsOf(nets[t]) : FromListCall(t, cells)

SpecList == InitList /\ [][NextList]_vars

----------------------------------------------------------------------------
(* A tickable object pulsed by threading.Timer (module ticker)              *)
(*                                                                          *)
(* The caller's thread runs a.pulse(period) and later a.stopPulse(); every  *)
(* Timer runs on a thread of its own: it waits for its `finished` event at  *)
(* most `period` seconds and, if the event is still unset then, calls       *)
(* tickable.pulse(a, period).  Time is not modelled: a started Timer may    *)
(* expire at any moment, which covers every period.  The threads interleave *)
(* between the statements of pulse and between the load of self.t and the   *)
(* call of cancel() in stopPulse.                                           *)

Threads == 0..Len(finished)

TimerThreads == 1..Len(finished)

\* the position of a thread that has finished self.t.start(): the caller is back from
\* pulse, a Timer thread is back in Timer.run
AfterPulse(th) == IF th = 0 THEN "running" ELSE "end"

\* >>> a.pulse(5)
CallPulse ==
  /\ thread[0] = "idle"
  /\ thread' = [thread EXCEPT ![0] = "tick"]
  /\ UNCHANGED <<foo, finished, loaded>>
  /\ UNCHANGED <<heap, nets, vcs, subscribers, published, pc, ticking, generations, subIdx,
                 call, ret, lastOp, ops>>

\* pulse: self.tick(), which for foo is self.value += 1
PulseTick(th) ==
  /\ thread[th] = "tick"
  /\ foo' = [foo EXCEPT !.value = @ + 1]
  /\ thread' = [thread EXCEPT ![th] = "arm"]
  /\ UNCHANGED <<finished, loaded>>
  /\ UNCHANGED <<heap, nets, vcs, subscribers, published, pc, ticking, generations, subIdx,
                 call, ret, lastOp, ops>>

\* pulse: self.t = threading.Timer(period, tickable.pulse, [self, period])
PulseArm(th) ==
  /\ thread[th] = "arm"
  /\ finished' = Append(finished, FALSE)
  /\ foo' = [foo EXCEPT !.t = Len(finished) + 1]
  /\ thread' = [ x \in 0..(Len(finished) + 1) |->
                   IF x = th THEN "start" ELSE IF x \in Threads THEN thread[x] ELSE "new" ]
  /\ UNCHANGED loaded
  /\ UNCHANGED <<heap, nets, vcs, subscribers, published, pc, ticking, generations, subIdx,
                 call, ret, lastOp, ops>>

\* pulse: self.t.start(), the thread of the Timer begins to wait; pulse returns
PulseStart(th) ==
  /\ thread[th] = "start"
  /\ thread[foo.t] = "new"
  /\ thread' = [thread EXCEPT ![foo.t] = "wait", ![th] = AfterPulse(th)]
  /\ UNCHANGED <<foo, finished, loaded>>
  /\ UNCHANGED <<heap, nets, vcs, subscribers, published, pc, ticking, generations, subIdx,
                 call, ret, lastOp, ops>>

\* Timer.run: the wait timed out with `finished` unset, so it calls tickable.pulse
Expire(i) ==
  /\ thread[i] = "wait"
  /\ ~ finished[i]
  /\ foo.value < MaxTicks
  /\ thread' = [thread EXCEPT ![i] = "tick"]
  /\ UNCHANGED <<foo, finished, loaded>>
  /\ UNCHANGED <<heap, nets, vcs, subscribers, published, pc, ticking, generations, subIdx,
                 call, ret, lastOp, ops>>

\* Timer.run: the wait ended because `finished` was set, so it calls nothing and ends
Cancelled(i) ==
  /\ thread[i] = "wait"
  /\ finished[i]
  /\ thread' = [thread EXCEPT ![i] = "cancelled"]
  /\ UNCHANGED <<foo, finished, loaded>>
  /\ UNCHANGED <<heap, nets, vcs, subscribers, published, pc, ticking, generations, subIdx,
                 call, ret, lastOp, ops>>

\* Timer.run: pulse has returned; it sets `finished` and the thread ends
TimerEnd(i) ==
  /\ thread[i] = "end"
  /\ finished' = [finished EXCEPT ![i] = TRUE]
  /\ thread' = [thread EXCEPT ![i] = "done"]
  /\ UNCHANGED <<foo, loaded>>
  /\ UNCHANGED <<heap, nets, vcs, subscribers, published, pc, ticking, generations, subIdx,
                 call, ret, lastOp, ops>>

\* stopPulse: the load of self.t in self.t.cancel()
StopPulseLoad ==
  /\ thread[0] = "running"
  /\ loaded' = foo.t
  /\ thread' = [thread EXCEPT ![0] = "cancel"]
  /\ UNCHANGED <<foo, finished>>
  /\ UNCHANGED <<heap, nets, vcs, subscribers, published, pc, ticking, generations, subIdx,
                 call, ret, lastOp, ops>>

\* stopPulse: cancel() sets `finished` of the Timer that was loaded; stopPulse returns
StopPulseCancel ==
  /\ thread[0] = "cancel"
  /\ finished' = [finished EXCEPT ![loaded] = TRUE]
  /\ thread' = [thread EXCEPT ![0] = "returned"]
  /\ UNCHANGED <<foo, loaded>>
  /\ UNCHANGED <<heap, nets, vcs, subscribers, published, pc, ticking, generations, subIdx,
                 call, ret, lastOp, ops>>

InitTicker ==
  /\ heap = <<>>
  /\ nets = <<>>
  /\ vcs = <<>>
  /\ subscribers = <<>>
  /\ published = 0
  /\ pc = "idle"
  /\ ticking = 0
  /\ generations = 0
  /\ subIdx = 0
  /\ call = NoCall
  /\ ret = "none"
  /\ lastOp = NoOp
  /\ ops = 0
  /\ NoPulse

NextTicker ==
  \/ CallPulse
  \/ \E th \in Threads : PulseTick(th)
  \/ \E th \in Threads : PulseArm(th)
  \/ \E th \in Threads : PulseStart(th)
  \/ \E i \in TimerThreads : Expire(i)
  \/ \E i \in TimerThreads : Cancelled(i)
  \/ \E i \in TimerThreads : TimerEnd(i)
  \/ StopPulseLoad
  \/ StopPulseCancel

SpecTicker == InitTicker /\ [][NextTicker]_vars

----------------------------------------------------------------------------
(* Helpers of the properties *)

Positions(net) == 1..Len(toList(net))

StatesOf(h, net) == [ p \in Positions(net) |-> h[toList(net)[p]].state ]

\* net t went through one generation in this step
Ticked(t) == nets'[t].generation = nets[t].generation + 1

\* every order in which the n cells of a list can be processed
Orders(n) == { o \in [1..n -> 1..n] : \A i, j \in 1..n : i # j => o[i] # o[j] }

\* the heap after cell.nextGen() was called on the cells of cellList in the order o
RECURSIVE NextGenInOrder(_, _, _, _)
NextGenInOrder(h, cellList, o, i) ==
  IF i > Len(o) THEN h
  ELSE NextGenInOrder(nextGen(h, cellList[o[i]], NoIdentity), cellList, o, i + 1)

\* the positions of a rows x cols grid at the 8 compass offsets of (row, col), 0-based
CompassPositions(rows, cols, row, col) ==
  ( { <<row + dr, col + dc>> : dr \in {0 - 1, 0, 1}, dc \in {0 - 1, 0, 1} }
      \cap { <<r, c>> : r \in 0..(rows - 1), c \in 0..(cols - 1) } )
    \ { <<row, col>> }

IsCorner(net, row, col) == row \in {0, net.rows - 1} /\ col \in {0, net.cols - 1}

IsEdge(net, row, col) == row \in {0, net.rows - 1} \/ col \in {0, net.cols - 1}

----------------------------------------------------------------------------
(* Properties *)

\* C1: in a net of IntegerCells, one generation of tick() leaves at every position the
\* sum of the states the neighbors of that position had before it, in whatever order
\* the cells are processed; the triangle with states 1, 5, 7 gets states 12, 8, 6.
C1_TickSumsNeighbors ==
  [][ \A t \in 1..Len(nets) :
        (Ticked(t) /\ nets[t].kind = "Integer") =>
          /\ \A p \in Positions(nets[t]) :
               heap'[toList(nets'[t])[p]].state
                 = SumStates(heap, heap[toList(nets[t])[p]].neighbors, 1)
          /\ \A o \in Orders(Len(toList(nets[t]))) :
               LET h == NextGenInOrder(heap, toList(nets[t]), o, 1)
               IN  \A p \in Positions(nets[t]) :
                     h[h[toList(nets[t])[p]].descendant].state
                       = heap'[toList(nets'[t])[p]].state
          /\ (nets[t].shape = "triangle" /\ StatesOf(heap, nets[t]) = <<1, 5, 7>>)
               => StatesOf(heap', nets'[t]) = <<12, 8, 6>> ]_vars

C1_Witness ==
  \E t \in 1..Len(nets) :
    /\ nets[t].shape = "triangle"
    /\ nets[t].generation = 1
    /\ StatesOf(heap, nets[t]) = <<12, 8, 6>>

\* C2: every neighbor reference of every cell of net.cells is a cell (not None) of the
\* net's current generation that has no descendant yet.
C2_NeighborsCurrent ==
  \A t \in 1..Len(nets) :
    LET cellList == toList(nets[t])
    IN  \A p \in 1..Len(cellList) : \A j \in 1..Len(heap[cellList[p]].neighbors) :
          LET n == heap[cellList[p]].neighbors[j]
          IN  /\ n # None
              /\ heap[n].generation = nets[t].generation
              /\ heap[n].descendant = None

C2_Witness ==
  \E t \in 1..Len(nets) :
    /\ nets[t].generation = MaxGen
    /\ pc = "idle"
    /\ \E p \in Positions(nets[t]) : Len(heap[toList(nets[t])[p]].neighbors) >= 2

\* C3: a generation of tick() gives every cell of the old generation a descendant and
\* leaves in net.cells exactly those descendants, the descendant of the cell that was
\* at a position at that position (row and column for a grid).
C3_DescendantsInPlace ==
  [][ \A t \in 1..Len(nets) :
        Ticked(t) =>
          /\ Len(toList(nets'[t])) = Len(toList(nets[t]))
          /\ \A p \in Positions(nets[t]) :
               /\ heap'[toList(nets[t])[p]].descendant # None
               /\ heap'[toList(nets[t])[p]].descendant = toList(nets'[t])[p]
          /\ \A p, q \in Positions(nets[t]) : p # q => toList(nets'[t])[p] # toList(nets'[t])[q]
          /\ IsGrid(nets[t]) =>
               /\ DOMAIN nets'[t].cells = 1..nets[t].rows
               /\ \A row \in 1..nets[t].rows :
                    /\ DOMAIN nets'[t].cells[row] = 1..nets[t].cols
                    /\ \A col \in 1..nets[t].cols :
                         nets'[t].cells[row][col] = heap'[nets[t].cells[row][col]].descendant ]_vars

C3_Witness ==
  \E t \in 1..Len(nets) :
    /\ IsGrid(nets[t]) /\ nets[t].rows >= 2 /\ nets[t].cols >= 2
    /\ nets[t].generation = 2
    /\ \A row \in 1..nets[t].rows : \A col \in 1..nets[t].cols :
         heap[heap[nets[t].cells[row][col]].ancestor].descendant = nets[t].cells[row][col]

\* C4: all cells of net.cells have the generation of the net, which is 0 until the net
\* is first ticked.
C4_OneGeneration ==
  \A t \in 1..Len(nets) :
    /\ LET cellList == toList(nets[t])
       IN  \A p \in 1..Len(cellList) : heap[cellList[p]].generation = nets[t].generation
    /\ (\A c \in 1..Len(heap) : heap[c].descendant = None) => nets[t].generation = 0

C4_Witness ==
  \E t \in 1..Len(nets) :
    /\ nets[t].generation = MaxGen
    /\ Len(toList(nets[t])) >= 3
    /\ \A p \in Positions(nets[t]) : heap[toList(nets[t])[p]].generation = MaxGen

\* C5: setupNeighbors gives the cell at (row, col) of a grid exactly the cells at the 8
\* compass offsets that lie in the grid, each once, never the cell itself; in a 3 x 3
\* grid that is 8 for the centre, 3 for a corner and 5 for the other edge cells.
C5_MooreNeighborhood ==
  \A t \in 1..Len(nets) :
    (IsGrid(nets[t]) /\ nets[t].generation = 0) =>
      \A row \in 0..(nets[t].rows - 1) : \A col \in 0..(nets[t].cols - 1) :
        LET ns == heap[nets[t].cells[row + 1][col + 1]].neighbors
        IN  /\ { ns[j] : j \in 1..Len(ns) }
                 = { nets[t].cells[q[1] + 1][q[2] + 1] :
                       q \in CompassPositions(nets[t].rows, nets[t].cols, row, col) }
            /\ Len(ns) = Cardinality({ ns[j] : j \in 1..Len(ns) })
            /\ \A j \in 1..Len(ns) : ns[j] # nets[t].cells[row + 1][col + 1]
            /\ (nets[t].rows = 3 /\ nets[t].cols = 3) =>
                 Len(ns) = IF row = 1 /\ col = 1 THEN 8
                           ELSE IF IsCorner(nets[t], row, col) THEN 3 ELSE 5

C5_Witness ==
  \E t \in 1..Len(nets) :
    /\ IsGrid(nets[t]) /\ nets[t].rows = 3 /\ nets[t].cols = 3 /\ nets[t].generation = 0
    /\ Len(heap[nets[t].cells[2][2]].neighbors) = 8
    /\ Len(heap[nets[t].cells[1][1]].neighbors) = 3
    /\ Len(heap[nets[t].cells[1][2]].neighbors) = 5

\* C6: fromList(toList(grid)) is the arrangement grid.cells itself: position (row, col)
\* holds the same cell reference.
C6_RoundTrip ==
  \A t \in 1..Len(nets) :
    IsGrid(nets[t]) =>
      LET again == fromList(nets[t], toList(nets[t]))
      IN  /\ DOMAIN again = 1..nets[t].rows
          /\ \A row \in 1..nets[t].rows :
                /\ DOMAIN again[row] = 1..nets[t].cols
                /\ \A col \in 1..nets[t].cols : again[row][col] = nets[t].cells[row][col]

C6_Witness ==
  \E t \in 1..Len(nets) :
    /\ IsGrid(nets[t]) /\ nets[t].rows >= 2 /\ nets[t].cols >= 3
    /\ nets[t].generation >= 1
    /\ fromList(nets[t], toList(nets[t]))[2][3] = nets[t].cells[2][3]

\* C7: clone() and nextGen() of a cell c return a new cell d, distinct from c, with
\* d.generation = c.generation + 1, d.ancestor = c, d.descendant = None, and leave
\* c.descendant = d; d has the identity of c unless a new identity was given.
C7_CloneLineage ==
  lastOp.op \in {"clone", "nextGen"} =>
    LET c == lastOp.cell
        d == lastOp.result
    IN  /\ d # c
        /\ d = Len(heap)
        /\ heap[d].generation = heap[c].generation + 1
        /\ heap[d].ancestor = c
        /\ heap[d].descendant = None
        /\ heap[c].descendant = d
        /\ heap[d].identity = IF lastOp.arg = NoIdentity THEN heap[c].identity ELSE lastOp.arg
        /\ heap[d].kind = heap[c].kind

C7_Witness ==
  /\ lastOp.op = "nextGen"
  /\ lastOp.arg = "Cell 5"
  /\ heap[lastOp.cell].ancestor # None
  /\ heap[lastOp.result].generation = 2
  /\ heap[lastOp.result].identity = "Cell 5"
  /\ heap[lastOp.cell].descendant = lastOp.result

\* C8: the descendant of a cell is set at most once: a step never changes a descendant
\* link that is already set.
C8_DescendantSetOnce ==
  [][ \A c \in 1..Len(heap) :
        heap[c].descendant # None => heap'[c].descendant = heap[c].descendant ]_vars

\* C9: tick(n) goes through exactly n generations for n >= 1 and through none for
\* n <= 0, publishing 'CellNet-Ticked' once per generation; while it runs, the passes
\* left are n minus the passes made, which never exceed max(n, 0), so the loop ends.
C9_TickCount ==
  call.net # 0 =>
    LET advanced == nets[call.net].generation - call.generation
        sent     == published - call.published
        want     == IF call.n > 0 THEN call.n ELSE 0
    IN  /\ advanced = sent
        /\ advanced <= want
        /\ advanced >= 0
        /\ pc # "idle" => generations = call.n - advanced
        /\ pc = "publish" => subIdx \in 1..(Len(subscribers) + 1)
        /\ (pc = "idle" /\ ret = "ok") =>
             /\ advanced = want
             /\ sent = want
             /\ want = 0 => nets[call.net].cells = call.cells

C9_Witness ==
  /\ pc = "idle" /\ ret = "ok"
  /\ call.n = 2
  /\ nets[call.net].generation = call.generation + 2
  /\ published = call.published + 2

\* C10: when tick(n), n >= 1, of a grid has returned, every viewer of every grid
\* viewer/controller of that grid is bound to the cell at its row and column of the
\* grid's cells.
C10_ViewersFollow ==
  (pc = "idle" /\ ret = "ok" /\ call.n >= 1) =>
    \A v \in 1..Len(vcs) :
      vcs[v].net = call.net =>
        \A row \in 1..nets[call.net].rows : \A col \in 1..nets[call.net].cols :
          vcs[v].viewers[row][col].cell = nets[call.net].cells[row][col]

C10_Witness ==
  /\ pc = "idle" /\ ret = "ok" /\ call.n = 2
  /\ \E v \in 1..Len(vcs) :
       /\ vcs[v].net = call.net
       /\ nets[call.net].rows >= 2 /\ nets[call.net].cols >= 2
       /\ nets[call.net].generation = 2
       /\ vcs[v].viewers[2][2].cell = nets[call.net].cells[2][2]

\* C11: mutate() and update() without a state toggle a BooleanCell whatever its
\* neighbors hold, whether called through a grid viewer/controller or a viewer; a pass
\* of tick leaves at each position of a BooleanCellGrid the negation of the state that
\* was there, and the second pass of tick(2) leaves the states tick was entered with.
C11_BooleanToggle ==
  [][ /\ \A v \in 1..Len(vcs) : \A rc \in ModifiedPositions(vcs[v]) :
           vcs[v].kind = "Boolean" =>
             /\ mutateCell(v, rc[1], rc[2]) =>
                  heap'[GridCell(vcs[v], rc[1], rc[2])].state
                    = ~ heap[GridCell(vcs[v], rc[1], rc[2])].state
             /\ updateCell(v, rc[1], rc[2], <<>>) =>
                  heap'[GridCell(vcs[v], rc[1], rc[2])].state
                    = ~ heap[GridCell(vcs[v], rc[1], rc[2])].state
             /\ (modifyCell(v, rc[1], rc[2], <<>>) \/ ViewerMutate(v) \/ ViewerUpdate(v, <<>>)) =>
                  heap'[ViewerAt(vcs[v], rc[1], rc[2]).cell].state
                    = ~ heap[ViewerAt(vcs[v], rc[1], rc[2]).cell].state
      /\ \A t \in 1..Len(nets) :
           (Ticked(t) /\ nets[t].kind = "Boolean") =>
             LET before == toList(nets[t])
                 after  == toList(nets'[t])
                 entry  == toList([nets[t] EXCEPT !.cells = call.cells])
             IN  /\ \A p \in 1..Len(before) : heap'[after[p]].state = ~ heap[before[p]].state
                 /\ nets'[t].generation = call.generation + 2 =>
                      \A p \in 1..Len(before) : heap'[after[p]].state = heap'[entry[p]].state
    ]_vars

\* the usage example: the 3 x 3 grid whose column 1 was set to true has been ticked
\* once and shows '* - *' in every row
C11_Witness ==
  /\ Len(nets) = 1
  /\ nets[1].kind = "Boolean" /\ nets[1].rows = 3 /\ nets[1].cols = 3
  /\ pc = "idle" /\ ret = "ok" /\ call.n = 1
  /\ \A row \in 1..3, col \in 1..3 :
       /\ heap[call.cells[row][col]].state = (col = 2)
       /\ heap[nets[1].cells[row][col]].state = (col # 2)
  /\ \A row \in 1..3 :
       [ col \in 1..3 |-> vcs[1].viewers[row][col].strValue ] = << "*", "-", "*" >>

\* the states of the first k cells of ns added up, from the last of them back
RECURSIVE SumUpTo(_, _, _)
SumUpTo(h, ns, k) == IF k = 0 THEN 0 ELSE SumUpTo(h, ns, k - 1) + h[ns[k]].state

\* C12: mutate() and update() of an IntegerCell set its state to the sum of the states
\* its neighbors have when it is called (1, 5 and 10 give 16), nextGen() gives that sum
\* to the new cell, and update(state=x) sets the state to x.
C12_IntegerMutate ==
  [][ (ops' = ops + 1 /\ heap[lastOp'.cell].kind = "Integer") =>
        LET c   == lastOp'.cell
            sum == SumUpTo(heap, heap[c].neighbors, Len(heap[c].neighbors))
        IN  /\ lastOp'.op = "mutate" => heap'[c].state = sum
            /\ lastOp'.op = "nextGen" => heap'[lastOp'.result].state = sum
            /\ lastOp'.op = "update" =>
                 heap'[c].state = IF lastOp'.arg = <<>> THEN sum ELSE lastOp'.arg[1]
            /\ ( /\ lastOp'.op \in {"mutate", "nextGen"}
                 /\ Len(heap[c].neighbors) = 3
                 /\ { heap[heap[c].neighbors[i]].state : i \in 1..3 } = {1, 5, 10} ) =>
                 heap'[IF lastOp'.op = "mutate" THEN c ELSE lastOp'.result].state = 16
    ]_vars

\* the state of a neighbor was set to 100 and the next mutate() of the cell gave 106
C12_Witness ==
  /\ ops = 2
  /\ lastOp.op = "mutate"
  /\ heap[lastOp.cell].kind = "Integer"
  /\ heap[lastOp.cell].neighbors = <<1, 2, 3>>
  /\ heap[1].state = 100
  /\ heap[lastOp.cell].state = 106

\* the decimal numeral of a natural number
RECURSIVE Decimal(_)
Decimal(n) ==
  LET digit(d) == << "0", "1", "2", "3", "4", "5", "6", "7", "8", "9" >>[d + 1]
  IN  IF n < 10 THEN digit(n) ELSE Decimal(n \div 10) \o digit(n % 10)

\* what a viewer of the kind shows for a state
Rendering(kind, state) ==
  CASE kind = "Integer" -> Decimal(state)
    [] kind = "Boolean" -> IF state THEN "*" ELSE "-"
    [] OTHER -> "X"

\* C13: after a modification made through a viewer/controller (mutate, update, modify,
\* setCell, mutateCell, updateCell, modifyCell) the viewer it was made through is bound
\* to a cell and shows the rendering of the state this cell has now: the decimal numeral
\* of an integer state, '*' for true and '-' for false.
C13_ViewersCurrent ==
  [][ \A v \in 1..Len(vcs) : \A rc \in ModifiedPositions(vcs[v]) :
        ( \/ mutateCell(v, rc[1], rc[2])
          \/ \E params \in ViewArgs(vcs[v].kind) :
               \/ updateCell(v, rc[1], rc[2], params)
               \/ modifyCell(v, rc[1], rc[2], params)
               \/ ViewerUpdate(v, params)
          \/ ViewerMutate(v)
          \/ \E c \in 1..Len(heap) : ViewerSetCell(v, c) ) =>
          LET viewer == ViewerAt(vcs'[v], rc[1], rc[2])
          IN  /\ viewer.cell # None
              /\ viewer.strValue = Rendering(vcs[v].kind, heap'[viewer.cell].state)
    ]_vars

\* the viewers of grid viewer/controller vc are bound to the cells now in its grid
BoundToCurrent(vc) ==
  \A row \in 1..nets[vc.net].rows, col \in 1..nets[vc.net].cols :
    vc.viewers[row][col].cell = nets[vc.net].cells[row][col]

\* no viewer of vc is bound to a cell now in its grid
BoundToNoneCurrent(vc) ==
  \A row \in 1..nets[vc.net].rows, col \in 1..nets[vc.net].cols :
    \A r \in 1..nets[vc.net].rows, c \in 1..nets[vc.net].cols :
      vc.viewers[row][col].cell # nets[vc.net].cells[r][c]

\* C14: while 'CellNet-Ticked' is being delivered the pass of tick that sent it is
\* complete: the net holds the new generation, whose cells are the descendants of the
\* old ones and have their neighbors among themselves, and the generation counts the
\* passes made; listeners run in subscription order (of the viewer/controllers of the
\* ticked grid, those before the next listener follow the new cells and the others do not
\* yet), and the loop goes on or returns only when all have run.
C14_PublishedAfterAdvance ==
  /\ pc = "publish" =>
       LET net      == nets[ticking]
           cur      == toList(net)
           advanced == call.n - generations
       IN  /\ advanced >= 1
           /\ net.generation = call.generation + advanced
           /\ published = call.published + advanced
           /\ \A p \in 1..Len(cur) :
                /\ heap[cur[p]].generation = net.generation
                /\ heap[cur[p]].descendant = None
                /\ heap[cur[p]].ancestor # None
                /\ heap[heap[cur[p]].ancestor].descendant = cur[p]
                /\ \A j \in 1..Len(heap[cur[p]].neighbors) :
                     \E q \in 1..Len(cur) : heap[cur[p]].neighbors[j] = cur[q]
           /\ subIdx \in 1..(Len(subscribers) + 1)
           /\ \A k \in 1..Len(subscribers) :
                vcs[subscribers[k]].net = ticking =>
                  IF k < subIdx THEN BoundToCurrent(vcs[subscribers[k]])
                                ELSE BoundToNoneCurrent(vcs[subscribers[k]])
  /\ (pc = "loop" /\ generations < call.n) =>
       /\ subIdx = Len(subscribers) + 1
       /\ \A k \in 1..Len(subscribers) :
            vcs[subscribers[k]].net = ticking => BoundToCurrent(vcs[subscribers[k]])

\* the second message of tick(2) is being delivered: the first of two listeners of the
\* ticked grid has run, the second has not
C14_Witness ==
  /\ pc = "publish"
  /\ call.n = 2 /\ generations = 0
  /\ Len(subscribers) = 2 /\ subIdx = 2
  /\ vcs[subscribers[1]].net = ticking /\ vcs[subscribers[2]].net = ticking
  /\ nets[ticking].rows * nets[ticking].cols > 1
  /\ BoundToCurrent(vcs[subscribers[1]])
  /\ BoundToNoneCurrent(vcs[subscribers[2]])

\* C15: a pass of tick changes nothing of the cells that existed before it but the
\* descendant of the cells of the ticked net, which it sets: their state, generation,
\* identity, ancestor and neighbors (cells of the retired generation) stay as they were,
\* and so does every cell of another net.
C15_RetiredUnchanged ==
  [][ \A t \in 1..Len(nets) :
        Ticked(t) =>
          LET old == toList(nets[t])
          IN  /\ Len(heap') = Len(heap) + Len(old)
              /\ \A c \in 1..Len(heap) :
                   /\ heap'[c] = [heap[c] EXCEPT !.descendant = heap'[c].descendant]
                   /\ (\A p \in 1..Len(old) : old[p] # c) => heap'[c] = heap[c]
              /\ \A p \in 1..Len(old) :
                   /\ heap[old[p]].descendant = None
                   /\ heap'[old[p]].descendant > Len(heap)
                   /\ \A j \in 1..Len(heap'[old[p]].neighbors) :
                        \E q \in 1..Len(old) : heap'[old[p]].neighbors[j] = old[q]
    ]_vars

\* the triangle of the usage example after two ticks: the first cell still holds 1 and
\* its neighbors, its descendant holds 12, whose descendant holds 14
C15_Witness ==
  /\ Len(nets) = 1
  /\ nets[1].shape = "triangle"
  /\ nets[1].generation = 2
  /\ heap[1].state = 1 /\ heap[1].generation = 0 /\ heap[1].neighbors = <<2, 3>>
  /\ heap[1].ancestor = None /\ heap[1].identity = "Cell A"
  /\ heap[heap[1].descendant].state = 12
  /\ heap[heap[1].descendant].neighbors = << heap[2].descendant, heap[3].descendant >>
  /\ heap[heap[heap[1].descendant].descendant].state = 14

C17_FromListRejects ==
  (lastOp.op = "fromList" /\ Len(lastOp.arg) # nets[1].rows * nets[1].cols) =>
    lastOp.result.raised

\* C18: in every grid, whatever its rows and cols, a corner cell has 3 neighbors,
\* another cell of the border has 5 and a cell inside has 8.
C18_CornerEdgeInterior ==
  \A t \in 1..Len(nets) :
    IsGrid(nets[t]) =>
      \A row \in 0..(nets[t].rows - 1) : \A col \in 0..(nets[t].cols - 1) :
        Len(heap[nets[t].cells[row + 1][col + 1]].neighbors)
          = IF IsCorner(nets[t], row, col) THEN 3
            ELSE IF IsEdge(nets[t], row, col) THEN 5 ELSE 8

\* C18 as the code has it: with at least 2 rows and 2 columns a corner cell has 3
\* neighbors, another cell of the border 5 and a cell inside 8; in a grid of a single row
\* or column a cell has the cells next to it in that line: none in the 1 x 1 grid, 1 at an
\* end of the line and 2 elsewhere.
C18_CornerEdgeInteriorFrom2x2 ==
  \A t \in 1..Len(nets) :
    IsGrid(nets[t]) =>
      \A row \in 0..(nets[t].rows - 1) : \A col \in 0..(nets[t].cols - 1) :
        Len(heap[nets[t].cells[row + 1][col + 1]].neighbors)
          = IF nets[t].rows >= 2 /\ nets[t].cols >= 2
              THEN IF IsCorner(nets[t], row, col) THEN 3
                   ELSE IF IsEdge(nets[t], row, col) THEN 5 ELSE 8
              ELSE IF nets[t].rows * nets[t].cols = 1 THEN 0
                   ELSE IF IsCorner(nets[t], row, col) THEN 1 ELSE 2

\* a 3 x 3 grid after a tick: 3 neighbors at a corner, 5 at the border, 8 inside
C18_Witness ==
  \E t \in 1..Len(nets) :
    /\ IsGrid(nets[t]) /\ nets[t].rows = 3 /\ nets[t].cols = 3 /\ nets[t].generation = 1
    /\ Len(heap[nets[t].cells[1][3]].neighbors) = 3
    /\ Len(heap[nets[t].cells[2][3]].neighbors) = 5
    /\ Len(heap[nets[t].cells[2][2]].neighbors) = 8

\* the cell of generation 0 that c comes from
RECURSIVE Root(_, _)
Root(h, c) == IF h[c].ancestor = None THEN c ELSE Root(h, h[c].ancestor)

\* C19: in every net, at construction and after any number of ticks, the cell at
\* position p has as neighbors the cells now at the positions of the neighbors that the
\* cell of generation 0 at p was given, as many and in the same order, and a cell is a
\* neighbor of another iff the other is a neighbor of it.
C19_TopologyPreserved ==
  \A t \in 1..Len(nets) :
    LET cur  == toList(nets[t])
        orig == [ p \in 1..Len(cur) |-> Root(heap, cur[p]) ]
    IN  \A p \in 1..Len(cur) :
          LET ns == heap[cur[p]].neighbors
              os == heap[orig[p]].neighbors
          IN  /\ Len(ns) = Len(os)
              /\ \A j \in 1..Len(ns) :
                   \E q \in 1..Len(cur) : os[j] = orig[q] /\ ns[j] = cur[q]
              /\ \A q \in 1..Len(cur) :
                   (\E j \in 1..Len(ns) : ns[j] = cur[q])
                     <=> (\E j \in 1..Len(heap[cur[q]].neighbors) :
                            heap[cur[q]].neighbors[j] = cur[p])

\* a 3 x 3 grid after MaxGen ticks: the cell in the middle has the 8 cells around it, of
\* its own generation, from the north clockwise
C19_Witness ==
  \E t \in 1..Len(nets) :
    /\ IsGrid(nets[t]) /\ nets[t].rows = 3 /\ nets[t].cols = 3
    /\ nets[t].generation = MaxGen
    /\ heap[nets[t].cells[2][2]].neighbors
         = << nets[t].cells[1][2], nets[t].cells[1][3], nets[t].cells[2][3], nets[t].cells[3][3],
              nets[t].cells[3][2], nets[t].cells[3][1], nets[t].cells[2][1], nets[t].cells[1][1] >>

\* C20: the viewers of a grid viewer/controller whose own grid has not been ticked stay
\* bound to the cells of that grid, whatever other net is ticked.
C20_OtherViewersUntouched ==
  \A v \in 1..Len(vcs) :
    nets[vcs[v].net].generation = 0 =>
      /\ BoundToCurrent(vcs[v])
      /\ \A row \in 1..Len(vcs[v].viewers) : \A col \in 1..Len(vcs[v].viewers[row]) :
           vcs[v].viewers[row][col].cell # None

\* the threads that are inside pulse at the given statement
InPulse(stage) == { th \in Threads : thread[th] = stage }

\* the Timers whose expiry has called pulse
Expired == { i \in TimerThreads : thread[i] \in {"tick", "arm", "start", "end", "done"} }

\* the Timers that are armed: made, and neither expired nor cancelled
Armed == { i \in TimerThreads : thread[i] \in {"new", "wait"} /\ ~ finished[i] }

\* Until stopPulse has returned, the call of pulse and every expiry of a Timer have run
\* tick() once, or are about to, and each of them that is past its tick() has made one
\* Timer, or is about to; never are two Timers armed.
C21_ExpiryTicksOnce ==
  thread[0] # "returned" =>
    /\ foo.value + Cardinality(InPulse("tick")) =
         Cardinality(Expired) + (IF thread[0] = "idle" THEN 0 ELSE 1)
    /\ Len(finished) + Cardinality(InPulse("arm")) = foo.value
    /\ Cardinality(Armed) <= 1

\* Once stopPulse has returned, no step is a tick().
C21_NoTickAfterStopPulse == thread[0] = "returned" => foo'.value = foo.value

\* C21: for a tickable object started with pulse(period), once stopPulse() has returned
\* no further tick() is executed, however stopPulse on the caller's thread interleaves
\* with a pulse running on a Timer thread; before that, each expiry of a Timer runs
\* tick() exactly once and arms exactly one new Timer.
C21_StopPulseStops == [] C21_ExpiryTicksOnce /\ [][C21_NoTickAfterStopPulse]_vars

\* stopPulse has returned and tick() has run since: the Timer it cancelled had expired
\* already, and the pulse of that expiry armed the next Timer afterwards
C21_TickAfterStopPulse ==
  /\ thread[0] = "returned"
  /\ finished[loaded]
  /\ loaded < foo.t
  /\ foo.value > loaded + 1

====
